---- MODULE Spec2Model ----
(***************************************************************************)
(* product-tracker-api: the scraping subsystem.                            *)
(*                                                                         *)
(* ScraperManager.runAll starts one adapter per platform (amazon,          *)
(* aliexpress, shopify), each adapter's search() fetches its search page   *)
(* with up to maxRetries attempts and parses it, and runAll joins the      *)
(* three tasks and ranks each platform's listings.                         *)
(*                                                                         *)
(* Spec is one runAll; SpecSearch is one adapter used on its own, with the *)
(* history of its search() call; SpecEntry puts the HTTP route and the     *)
(* batch job's main in front of runAll; SpecScore is computeScore alone.   *)
(*                                                                         *)
(* Strings the code inspects character by character (query, titles) are    *)
(* sequences of one-character strings.  A JavaScript number that may be    *)
(* fractional (the configured cap) is a record [floor, whole].             *)
(***************************************************************************)
EXTENDS Integers, Sequences, FiniteSets, TLC

(* ------------------------------ bounds --------------------------------- *)

\* The longest result page: a page holds n containers, n <= MaxItems.
MaxItems == 3

\* The longest title and the longest query computeScore is given on its own.
MaxTitleLen == 3
MaxQueryLen == 2

(* ------------------------- program constants --------------------------- *)

maxRetries == 3
DefaultMaxResults == 10
DefaultTimeout == 10000

AMAZON_BASE_URL == "https://www.amazon.com"
ALIEXPRESS_BASE_URL == "https://www.aliexpress.com"

\* Object.keys(scrapers): the platforms in insertion order.
Platforms == <<"amazon", "aliexpress", "shopify">>
PlatformNames == {Platforms[i] : i \in 1..Len(Platforms)}

(* ------------------------------ strings -------------------------------- *)

LoneSurrogate == "\\uD800"

LowerChar(c) ==
  CASE c = "A" -> "a"
    [] c = "B" -> "b"
    [] c = "D" -> "d"
    [] c = "G" -> "g"
    [] c = "M" -> "m"
    [] c = "S" -> "s"
    [] c = "W" -> "w"
    [] OTHER -> c

toLowerCase(s) == [i \in 1..Len(s) |-> LowerChar(s[i])]

\* String.prototype.includes
includes(t, q) ==
  \E i \in 0..(Len(t) - Len(q)) : SubSeq(t, i + 1, i + Len(q)) = q

RECURSIVE TrimStart(_)
TrimStart(s) ==
  IF s # << >> /\ Head(s) = " " THEN TrimStart(Tail(s)) ELSE s

RECURSIVE TrimEnd(_)
TrimEnd(s) ==
  IF s # << >> /\ s[Len(s)] = " " THEN TrimEnd(SubSeq(s, 1, Len(s) - 1)) ELSE s

trim(s) == TrimEnd(TrimStart(s))

\* encodeURIComponent: throws URIError on a lone surrogate, escapes the space.
URIError == [threw |-> TRUE, text |-> << >>]

EncodeChar(c) == IF c = " " THEN <<"%", "2", "0">> ELSE <<c>>

RECURSIVE EncodeChars(_)
EncodeChars(s) ==
  IF s = << >> THEN << >> ELSE EncodeChar(Head(s)) \o EncodeChars(Tail(s))

encodeURIComponent(s) ==
  IF \E i \in 1..Len(s) : s[i] = LoneSurrogate
  THEN URIError
  ELSE [threw |-> FALSE, text |-> EncodeChars(s)]

(* ------------------------------ numbers -------------------------------- *)

\* A finite JavaScript number floor + f with 0 <= f < 1; whole means f = 0.
Num(n) == [floor |-> n, whole |-> TRUE]
NumAndFraction(n) == [floor |-> n, whole |-> FALSE]

\* len >= m, for an integer len
IntGE(len, m) == IF m.whole THEN len >= m.floor ELSE len > m.floor

(* --------------------------- configuration ----------------------------- *)

\* Number(text) of an environment variable: NaN, or a finite number.
NaN == [nan |-> TRUE, floor |-> 0, whole |-> TRUE]
Finite(m) == [nan |-> FALSE, floor |-> m.floor, whole |-> m.whole]

\* Texts of an environment variable: unset, "abc", "0", "2", "2.5", "-1",
\* "-5" and "0.5".
EnvText ==
  [unset |-> [set |-> FALSE, number |-> NaN],
   notANumber |-> [set |-> TRUE, number |-> NaN],
   zero |-> [set |-> TRUE, number |-> Finite(Num(0))],
   two |-> [set |-> TRUE, number |-> Finite(Num(2))],
   twoAndHalf |-> [set |-> TRUE, number |-> Finite(NumAndFraction(2))],
   minusOne |-> [set |-> TRUE, number |-> Finite(Num(-1))],
   minusFive |-> [set |-> TRUE, number |-> Finite(Num(-5))],
   half |-> [set |-> TRUE, number |-> Finite(NumAndFraction(0))]]

EnvValues ==
  {EnvText.unset, EnvText.notANumber, EnvText.zero, EnvText.two,
   EnvText.twoAndHalf}

\* x || dflt for a number x: NaN and 0 are falsy.
OrDefault(x, dflt) ==
  IF x.nan \/ (x.whole /\ x.floor = 0) THEN dflt
  ELSE [floor |-> x.floor, whole |-> x.whole]

NoOverrides == [present |-> FALSE, value |-> Num(0)]

\* The variables of process.env that buildAppConfig reads.
Environment(maxResults, amazon, aliexpress, shopify) ==
  [MAX_RESULTS_PER_PLATFORM |-> maxResults,
   AMAZON_SCRAPER_TIMEOUT |-> amazon,
   ALIEXPRESS_SCRAPER_TIMEOUT |-> aliexpress,
   SHOPIFY_SCRAPER_TIMEOUT |-> shopify]

\* An environment that sets no timeout.
DefaultTimeouts(maxResults) ==
  Environment(maxResults, EnvText.unset, EnvText.unset, EnvText.unset)

\* const { NAME = dflt } = env; Number(NAME) || dflt
FromEnv(variable, dflt) ==
  IF variable.set THEN OrDefault(variable.number, Num(dflt)) ELSE Num(dflt)

buildAppConfig(environment, overrides) ==
  [scraperTimeouts |->
     [amazon |-> FromEnv(environment.AMAZON_SCRAPER_TIMEOUT, DefaultTimeout),
      aliexpress |-> FromEnv(environment.ALIEXPRESS_SCRAPER_TIMEOUT, DefaultTimeout),
      shopify |-> FromEnv(environment.SHOPIFY_SCRAPER_TIMEOUT, DefaultTimeout)],
   maxResultsPerPlatform |->
     IF overrides.present THEN overrides.value
     ELSE FromEnv(environment.MAX_RESULTS_PER_PLATFORM, DefaultMaxResults)]

(* ------------------------------- links --------------------------------- *)

\* null / undefined
Null == [null |-> TRUE]

\* A URL text: its scheme ("" when the text has none), the pieces of text
\* that make up its host (<< >> when it has none) and its path segments.
Url(scheme, host, path) ==
  [null |-> FALSE, scheme |-> scheme, host |-> host, path |-> path]

\* new URL(base) of the adapters' base origins
ParseBase(base) ==
  CASE base = AMAZON_BASE_URL -> Url("https", <<"www.amazon.com">>, << >>)
    [] base = ALIEXPRESS_BASE_URL -> Url("https", <<"www.aliexpress.com">>, << >>)

\* An href attribute.  present: the attribute exists and is not "";
\* http: the text starts with "http"; slash: the text starts with "/";
\* parses: new URL accepts the text (behind the base origin when the text
\* does not start with "http"); url: the parsed URL of a text that starts
\* with "http", and for any other text its path segments (and the host a
\* text that starts with "//" names).
Href(present, http, slash, parses, url) ==
  [present |-> present, http |-> http, slash |-> slash, parses |-> parses,
   url |-> url]

NoHref == Href(FALSE, FALSE, FALSE, FALSE, Url("", << >>, << >>))
\* "/seg/seg"
Relative(path) == Href(TRUE, FALSE, TRUE, TRUE, Url("", << >>, path))
\* "seg/seg"
Bare(path) == Href(TRUE, FALSE, FALSE, TRUE, Url("", << >>, path))
\* "https://host/seg/seg"
Absolute(host, path) == Href(TRUE, TRUE, FALSE, TRUE, Url("https", <<host>>, path))
\* "http://": starts with "http", rejected by new URL
Malformed == Href(TRUE, TRUE, FALSE, FALSE, Url("", << >>, << >>))

\* The URL parser lower-cases a host.
toLowerHost(piece) ==
  CASE piece = "Slug" -> "slug"
    [] OTHER -> piece

\* new URL(`${base}${text.startsWith('/') ? '' : '/'}${text.replace(/^\/+/, '')}`)
\* for a text that does not start with "http": after a leading "/" the text
\* follows the base origin with no separator, so that its first segment
\* continues the host.
Prefixed(base, href) ==
  LET b == ParseBase(base)
      path == href.url.host \o href.url.path
  IN  IF href.slash /\ path # << >>
      THEN Url(b.scheme, b.host \o <<toLowerHost(Head(path))>>, Tail(path))
      ELSE Url(b.scheme, b.host, path)

\* URL.origin: "null" for a scheme that is not http or https
OriginOf(url) ==
  IF url.scheme \in {"http", "https"}
  THEN [scheme |-> url.scheme, host |-> url.host, text |-> << >>]
  ELSE [scheme |-> "", host |-> << >>, text |-> <<"null">>]

\* /[A-Z0-9]{10}/i on a path segment, and toUpperCase of the match
AsinCodes == {"b0abc12345", "B0XYZ67890"}
toUpperCase(code) ==
  CASE code = "b0abc12345" -> "B0ABC12345"
    [] OTHER -> code

\* pathname.match(/\/dp\/([A-Z0-9]{10})/i)
DpMatch(path) ==
  {i \in 1..(Len(path) - 1) : path[i] = "dp" /\ path[i + 1] \in AsinCodes}
\* pathname.match(/\/gp\/product\/([A-Z0-9]{10})/i)
GpMatch(path) ==
  {i \in 1..(Len(path) - 2) :
     path[i] = "gp" /\ path[i + 1] = "product" /\ path[i + 2] \in AsinCodes}

Min(S) == CHOOSE x \in S : \A y \in S : x <= y

\* `${AMAZON_BASE_URL}/dp/${asinMatch[1].toUpperCase()}`
Canonical(code) ==
  Url("https", <<"www.amazon.com">>, <<"dp", toUpperCase(code)>>)

\* AmazonScraper.normalizeProductLink (hrefs without url/location parameter)
normalizeProductLink(rawLink) ==
  IF ~rawLink.present THEN Null
  ELSE IF ~rawLink.parses THEN Null
  ELSE LET urlObject == IF rawLink.http THEN rawLink.url
                        ELSE Prefixed(AMAZON_BASE_URL, rawLink)
           pathname == urlObject.path
           origin == OriginOf(urlObject)
       IN  IF DpMatch(pathname) # {}
           THEN Canonical(pathname[Min(DpMatch(pathname)) + 1])
           ELSE IF GpMatch(pathname) # {}
           THEN Canonical(pathname[Min(GpMatch(pathname)) + 2])
           ELSE Url(origin.scheme, origin.host, origin.text \o pathname)

\* AliExpressScraper.ensureAbsoluteUrl
ensureAbsoluteUrl(relative) ==
  IF ~relative.parses THEN Null
  ELSE IF relative.http THEN relative.url
  ELSE Prefixed(ALIEXPRESS_BASE_URL, relative)

\* Percent escapes in a path segment.  encodeURIComponent writes "%" as
\* "%25"; decoding reads "%25" as "%", and finds a "%" that no two
\* hexadecimal digits follow malformed.
EncodeSegment(seg) ==
  CASE seg = "100%-cotton" -> "100%25-cotton"
    [] seg = "100%25-cotton" -> "100%2525-cotton"
    [] OTHER -> seg
DecodeSegment(seg) ==
  CASE seg = "100%2525-cotton" -> "100%25-cotton"
    [] seg = "100%25-cotton" -> "100%-cotton"
    [] OTHER -> seg
MalformedEscape(seg) == seg = "100%-cotton"

\* A text that holds a URL: escaped when its ":" and "/" are written "%3A"
\* and "%2F".
UrlText(escaped, url) == [escaped |-> escaped, url |-> url]

\* encodeURIComponent(d) of a URL text d
EncodeUrlText(d) ==
  UrlText(TRUE,
          Url(d.url.scheme, d.url.host,
              [i \in 1..Len(d.url.path) |-> EncodeSegment(d.url.path[i])]))

\* url.searchParams.get(name): the value with its escapes decoded, a
\* malformed escape left as written
SearchParamsGet(text) ==
  UrlText(FALSE,
          Url(text.url.scheme, text.url.host,
              [i \in 1..Len(text.url.path) |-> DecodeSegment(text.url.path[i])]))

\* decodeURIComponent(encoded): throws URIError on a malformed escape
decodeURIComponent(text) ==
  IF \E i \in 1..Len(text.url.path) : MalformedEscape(text.url.path[i])
  THEN [threw |-> TRUE, text |-> text]
  ELSE [threw |-> FALSE,
        text |-> UrlText(FALSE,
                         Url(text.url.scheme, text.url.host,
                             [i \in 1..Len(text.url.path) |->
                                DecodeSegment(text.url.path[i])]))]

\* The href of a search result of the storefront search.  present: the
\* attribute exists and is not ""; wrapper: it starts with "/l/?"; uddg: it
\* has a non-empty uddg parameter, whose value as written is text; http: it
\* starts with "http", and text is the href itself.
ResultHref(present, wrapper, uddg, http, text) ==
  [present |-> present, wrapper |-> wrapper, uddg |-> uddg, http |-> http,
   text |-> text]

\* "/l/?uddg=<d, encoded>"
Wrapper(d) == ResultHref(TRUE, TRUE, TRUE, FALSE, EncodeUrlText(d))
\* "https://host/seg"
Direct(d) == ResultHref(TRUE, FALSE, FALSE, TRUE, d)

\* ShopifyScraper.normalizeResultLink
normalizeResultLink(rawHref) ==
  IF ~rawHref.present THEN Null
  ELSE IF rawHref.wrapper /\ rawHref.uddg
       THEN LET encoded == SearchParamsGet(rawHref.text)
                decoded == decodeURIComponent(encoded)
            IN  IF decoded.threw THEN Null ELSE decoded.text.url
       ELSE IF rawHref.http THEN rawHref.text.url ELSE Null

\* SHOPIFY_DOMAIN_REGEX = /(myshopify\.com|\.shopify\.com)/i, tested anywhere
\* in the text
ShopifyDomains == {"shop-a.myshopify.com", "b.shopify.com"}
SHOPIFY_DOMAIN_REGEX(url) ==
  \/ \E i \in 1..Len(url.host) : url.host[i] \in ShopifyDomains
  \/ \E i \in 1..Len(url.path) : url.path[i] \in ShopifyDomains

(* ------------------------- pages and parsing --------------------------- *)

Listing(platform, title, url) ==
  [platform |-> platform, title |-> title, url |-> url]

\* Titles: "ab" is the query used below.
Title ==
  [exact |-> <<"a", "b">>,
   contains |-> <<"x", "A", "B", "y">>,
   other |-> <<"z">>,
   padded |-> <<" ", "b", "a", " ">>,
   upper |-> <<"A", "B">>,
   longer |-> <<"a", "b", "c">>,
   short |-> <<"c">>,
   containsToo |-> <<"a", "b", "x", "y">>,
   \* the end-to-end scenario's titles
   scenario |->
     <<"W", "i", "r", "e", "l", "e", "s", "s", " ", "M", "o", "u", "s", "e",
       " ", "2", ".", "4", "G">>,
   scenarioSponsored |->
     <<"S", "p", "o", "n", "s", "o", "r", "e", "d", " ", "M", "o", "u", "s", "e",
       " ", "D", "e", "a", "l">>]

Digits == {"0", "1", "2", "3", "4", "5", "6", "7", "8", "9"}

\* text.replace(/[^\d]/g, '')
DigitsOnly(text) == SelectSeq(text, LAMBDA c : c \in Digits)

RECURSIVE StripLeadingZeros(_)
StripLeadingZeros(ds) ==
  IF ds # << >> /\ Head(ds) = "0" THEN StripLeadingZeros(Tail(ds)) ELSE ds

RECURSIVE StripTrailingZeros(_)
StripTrailingZeros(ds) ==
  IF ds # << >> /\ ds[Len(ds)] = "0"
  THEN StripTrailingZeros(SubSeq(ds, 1, Len(ds) - 1))
  ELSE ds

\* parseFloat(`${int}.${frac}`) for digit texts int and frac (frac not
\* empty): the number, as the digits of its integer part without leading
\* zeros and of its fraction without trailing zeros.
Infinity == [null |-> FALSE, int |-> <<"Infinity">>, frac |-> << >>]

\* Number.MAX_VALUE is 1.797...e308: a decimal text whose integer part has
\* more than 309 digits, or 309 digits that start above "17", is Infinity.
MaxValueDigits == 309
Overflows(int) ==
  \/ Len(int) > MaxValueDigits
  \/ /\ Len(int) = MaxValueDigits
     /\ (int[1] # "1" \/ int[2] \in {"8", "9"})

parseFloat(int, frac) ==
  IF Overflows(StripLeadingZeros(int)) THEN Infinity
  ELSE [null |-> FALSE, int |-> StripLeadingZeros(int),
        frac |-> StripTrailingZeros(frac)]

\* CURRENCY_SYMBOLS[symbol] ?? symbol
CURRENCY_SYMBOLS(symbol) ==
  CASE symbol = "$" -> "USD"
    [] symbol = "EUR-sign" -> "EUR"
    [] symbol = "GBP-sign" -> "GBP"
    [] OTHER -> symbol

\* The .a-price element of a container: whether there is one, and the
\* trimmed texts of its first .a-price-symbol, .a-price-whole and
\* .a-price-fraction.
PriceBox(present, symbol, whole, fraction) ==
  [present |-> present, symbol |-> symbol, whole |-> whole, fraction |-> fraction]

NoPriceBox == PriceBox(FALSE, "", << >>, << >>)

\* (mutant) the symbol is passed through as written
extractPriceRawSymbol(box) ==
  [price |-> IF box.present /\ box.whole # << >>
             THEN parseFloat(DigitsOnly(box.whole),
                             IF DigitsOnly(box.fraction) = << >> THEN <<"0", "0">>
                             ELSE DigitsOnly(box.fraction))
             ELSE Null,
   currency |-> IF box.present /\ box.symbol # "" THEN box.symbol ELSE "null"]

\* AmazonScraper.extractPrice
extractPrice(box) ==
  [price |-> IF box.present /\ box.whole # << >>
             THEN parseFloat(DigitsOnly(box.whole),
                             IF DigitsOnly(box.fraction) = << >> THEN <<"0", "0">>
                             ELSE DigitsOnly(box.fraction))
             ELSE Null,
   currency |-> IF box.present /\ box.symbol # ""
                THEN CURRENCY_SYMBOLS(box.symbol) ELSE "null"]

\* A marketplace result container: the data-component-type attribute, whether
\* it holds an [aria-label="Sponsored"] / .s-sponsored-label-text element, the
\* text of `h2 a span`, the href of `h2 a` and its .a-price element.
AmazonItem(componentType, sponsoredLabel, title, rawLink, priceBox) ==
  [componentType |-> componentType, sponsoredLabel |-> sponsoredLabel,
   title |-> title, rawLink |-> rawLink, priceBox |-> priceBox]

AmazonItems ==
  << AmazonItem("s-search-result", FALSE, Title.other,
                Relative(<<"gp", "product", "B0XYZ67890">>), NoPriceBox),
     AmazonItem("s-search-result", TRUE, Title.exact,
                Relative(<<"dp", "b0abc12345">>),
                PriceBox(TRUE, "$", <<"5">>, <<"0", "0">>)),
     AmazonItem("s-search-result", FALSE, Title.contains,
                Absolute("www.amazon.com", <<"dp", "b0abc12345">>),
                PriceBox(TRUE, "EUR-sign", <<"0", "1", "2", ".">>, << >>)),
     AmazonItem("s-search-result", FALSE, Title.padded,
                Relative(<<"stores", "page">>),
                PriceBox(TRUE, "CHF", <<"N", "/", "A">>, << >>)),
     AmazonItem("sp-sponsored-result", FALSE, Title.exact,
                Relative(<<"dp", "B0XYZ67890">>), NoPriceBox),
     AmazonItem("s-search-result", FALSE, << >>, NoHref, NoPriceBox),
     AmazonItem("s-search-result", FALSE, Title.exact, Malformed, NoPriceBox),
     AmazonItem("s-search-result", FALSE, Title.upper,
                Relative(<<"Slug", "dp", "B0XYZ67890", "ref">>),
                PriceBox(TRUE, "", << >>, <<"9", "9">>)),
     AmazonItem("s-search-result", FALSE, Title.longer,
                Bare(<<"dp", "b0abc12345">>), NoPriceBox),
     AmazonItem("s-search-result", FALSE, Title.short,
                \* "httpx://h/p": starts with "http", the scheme is not http(s)
                Href(TRUE, TRUE, FALSE, TRUE, Url("httpx", <<"h">>, <<"p">>)), NoPriceBox) >>

\* The page of the end-to-end scenario.
ScenarioItems ==
  << AmazonItem("s-search-result", TRUE, Title.scenarioSponsored,
                Absolute("www.amazon.com", <<"dp", "B0XYZ67890">>),
                PriceBox(TRUE, "$", <<"9">>, <<"9", "9">>)),
     AmazonItem("s-search-result", FALSE, Title.scenario,
                Absolute("www.amazon.com", <<"Slug", "dp", "b0abc12345">>),
                PriceBox(TRUE, "$", <<"1", "2">>, <<"9", "9">>)) >>

\* (mutant) only the attribute marks a sponsored container
AmazonSponsoredAttrOnly(item) == item.componentType = "sp-sponsored-result"

AmazonSponsored(item) ==
  item.componentType = "sp-sponsored-result" \/ item.sponsoredLabel

\* products.push({ platform: 'amazon', title, url, price, currency, ... })
AmazonListing(title, url, priceInfo) ==
  [platform |-> "amazon", title |-> title, url |-> url,
   price |-> priceInfo.price, currency |-> priceInfo.currency]

\* AmazonScraper.parseProducts: the callback of .each, on one container
RECURSIVE AmazonEach(_, _, _)
AmazonEach(items, products, maxResults) ==
  IF items = << >> THEN products
  ELSE LET item == Head(items)
           title == trim(item.title)
           url == normalizeProductLink(item.rawLink)
       IN  \* $('... .s-result-item[data-component-type="s-search-result"]')
           IF item.componentType # "s-search-result"
           THEN AmazonEach(Tail(items), products, maxResults)
           ELSE IF IntGE(Len(products), maxResults) THEN products
           ELSE IF AmazonSponsored(item)
           THEN AmazonEach(Tail(items), products, maxResults)
           ELSE IF title = << >> \/ ~item.rawLink.present
           THEN AmazonEach(Tail(items), products, maxResults)
           ELSE IF url = Null
           THEN AmazonEach(Tail(items), products, maxResults)
           ELSE AmazonEach(Tail(items),
                           Append(products,
                                  AmazonListing(title, url, extractPrice(item.priceBox))),
                           maxResults)

\* Price texts of wholesale cards.
PriceText ==
  [dollar |-> <<"U", "S", " ", "$", "1", "2", ".", "9", "9">>,
   code |-> <<"U", "S", "D", " ", "1", ",", "0", "5", "0", ".", "5", "0">>,
   dots |-> <<"$", ".", ".">>,
   comma |-> <<"EUR-sign", " ", ",">>,
   notAvailable |-> <<"N", "/", "A">>,
   versions |-> <<"1", ".", "2", ".", "3">>,
   huge |-> [i \in 1..(MaxValueDigits + 1) |-> "9"]]

\* A wholesale product card: the href of its a[href*="/item/"] anchor, the
\* anchor's title attribute, the two title-class texts, the anchor text and
\* the texts of its four price classes.
AliItem(href, titleAttr, multiTitle, manhattanTitle, anchorText, priceTexts) ==
  [href |-> href, titleAttr |-> titleAttr, multiTitle |-> multiTitle,
   manhattanTitle |-> manhattanTitle, anchorText |-> anchorText,
   priceTexts |-> priceTexts]

NoAttr == [present |-> FALSE, text |-> << >>]
Attr(text) == [present |-> TRUE, text |-> text]

AliItems ==
  << AliItem(Relative(<<"item", "1.html">>), Attr(Title.other),
             << >>, << >>, Title.other,
             << << >>, << >>, PriceText.dollar, PriceText.code >>),
     AliItem(Absolute("www.aliexpress.com", <<"item", "2.html">>), Attr(Title.contains),
             << >>, << >>, << >>,
             << PriceText.code, << >>, << >>, << >> >>),
     AliItem(Relative(<<"item", "3.html">>), NoAttr,
             Title.exact, << >>, << >>,
             << << >>, PriceText.dots, << >>, << >> >>),
     AliItem(Relative(<<"item", "4.html">>), NoAttr,
             << >>, << >>, Title.exact,
             << << >>, << >>, << >>, PriceText.versions >>),
     AliItem(NoHref, Attr(Title.exact), << >>, << >>, << >>,
             << << >>, << >>, << >>, << >> >>),
     AliItem(Malformed, Attr(Title.upper), << >>, << >>, << >>,
             << << >>, << >>, << >>, << >> >>),
     AliItem(Bare(<<"w", "item", "7.html">>), Attr(Title.longer),
             << >>, << >>, << >>,
             << PriceText.huge, << >>, << >>, << >> >>),
     \* "//www.aliexpress.com/item/8.html": starts with "/", names a host
     AliItem(Href(TRUE, FALSE, TRUE, TRUE,
                  Url("", <<"www.aliexpress.com">>, <<"item", "8.html">>)),
             Attr(Title.short), << >>, << >>, << >>,
             << << >>, << >>, << >>, PriceText.comma >>),
     AliItem(Absolute("www.aliexpress.com", <<"item", "9.html">>), Attr(<< >>),
             << >>, Title.containsToo, Title.containsToo,
             << PriceText.dollar, << >>, << >>, << >> >>),
     AliItem(Absolute("www.aliexpress.com", <<"item", "10.html">>), NoAttr,
             << >>, << >>, << >>,
             << << >>, << >>, << >>, << >> >>),
     AliItem(Absolute("www.aliexpress.com", <<"item", "11.html">>), Attr(Title.exact),
             << >>, << >>, << >>,
             << PriceText.notAvailable, << >>, << >>, << >> >>),
     AliItem(Absolute("www.aliexpress.com", <<"item", "12.html">>), Attr(Title.upper),
             << >>, << >>, << >>,
             << << >>, PriceText.versions, << >>, << >> >>),
     AliItem(Absolute("www.aliexpress.com", <<"item", "13.html">>), Attr(Title.contains),
             << >>, << >>, << >>,
             << << >>, << >>, << >>, << >> >>) >>

\* a ?? b: b only when a is null or undefined
AliTitle(item) ==
  IF item.titleAttr.present THEN item.titleAttr.text ELSE item.multiTitle

\* AliExpressScraper.extractPriceText: a || b || c || d || ''
extractPriceText(item) ==
  LET texts == SelectSeq(item.priceTexts, LAMBDA t : t # << >>)
  IN  IF texts = << >> THEN << >> ELSE Head(texts)

\* the character classes of the pattern: [$ EUR-sign GBP-sign], [A-Z], [\d.,]
Class ==
  [symbol |-> {"$", "EUR-sign", "GBP-sign"},
   capital |-> {"A", "B", "C", "D", "E", "F", "G", "H", "I", "J", "K", "L", "M",
                "N", "O", "P", "Q", "R", "S", "T", "U", "V", "W", "X", "Y", "Z"},
   numeric |-> Digits \cup {".", ","}]

\* the number of characters of S that the text holds in a row from index i
RunLength(text, i, S) ==
  LET stops == {j \in i..Len(text) : text[j] \notin S}
  IN  IF i > Len(text) THEN 0
      ELSE IF stops = {} THEN Len(text) - i + 1
      ELSE Min(stops) - i

\* /([$ EUR-sign GBP-sign]|[A-Z]{3})?\s*([\d.,]+)/ tried at index i with a
\* first group of g characters
MatchWith(raw, i, g) ==
  LET ws == RunLength(raw, i + g, {" "})
      n == RunLength(raw, i + g + ws, Class.numeric)
  IN  [found |-> n > 0,
       captured |-> g > 0,
       symbol |-> SubSeq(raw, i, i + g - 1),
       numeric |-> SubSeq(raw, i + g + ws, i + g + ws + n - 1)]

\* the pattern tried at index i: with its optional group first, without it
\* when that fails
MatchAt(raw, i) ==
  LET g == IF raw[i] \in Class.symbol THEN 1
           ELSE IF RunLength(raw, i, Class.capital) >= 3 THEN 3
           ELSE 0
  IN  IF g > 0 /\ MatchWith(raw, i, g).found THEN MatchWith(raw, i, g)
      ELSE MatchWith(raw, i, 0)

\* raw.match(pattern): the leftmost match, which starts no later than the
\* first character of [\d.,], where the pattern matches without its group
Match(raw) ==
  LET numerics == {j \in 1..Len(raw) : raw[j] \in Class.numeric}
      at == IF numerics = {} THEN {}
            ELSE {i \in 1..Min(numerics) : MatchAt(raw, i).found}
  IN  IF at = {} THEN [found |-> FALSE, captured |-> FALSE,
                       symbol |-> << >>, numeric |-> << >>]
      ELSE MatchAt(raw, Min(at))

\* Number.parseFloat(text) of a text of digits and dots: the digits up to
\* the first dot and the digits between the first and the second dot; NaN
\* when there is no digit in either.
parseFloatText(text) ==
  LET n == RunLength(text, 1, Digits)
      int == SubSeq(text, 1, n)
      dot == n < Len(text) /\ text[n + 1] = "."
      m == IF dot THEN RunLength(text, n + 2, Digits) ELSE 0
      frac == SubSeq(text, n + 2, n + 1 + m)
  IN  IF int = << >> /\ frac = << >> THEN [nan |-> TRUE, value |-> Null]
      ELSE [nan |-> FALSE, value |-> parseFloat(int, frac)]

NoCurrency == [null |-> TRUE, text |-> << >>]

\* AliExpressScraper.parsePrice
parsePrice(raw) ==
  IF raw = << >> THEN [price |-> Null, currency |-> NoCurrency]
  ELSE LET match == Match(raw)
           numericPart == SelectSeq(match.numeric, LAMBDA c : c # ",")
           price == IF numericPart # << >> THEN parseFloatText(numericPart)
                    ELSE [nan |-> FALSE, value |-> Null]
       IN  IF ~match.found THEN [price |-> Null, currency |-> NoCurrency]
           ELSE [price |-> IF price.nan THEN Null ELSE price.value,
                 currency |-> IF match.captured
                              THEN [null |-> FALSE, text |-> trim(match.symbol)]
                              ELSE NoCurrency]

\* products.push({ platform: 'aliexpress', title, url, price, currency, ... })
AliListing(title, url, priceInfo) ==
  [platform |-> "aliexpress", title |-> title, url |-> url,
   price |-> priceInfo.price, currency |-> priceInfo.currency]

\* AliExpressScraper.parseProducts: the callback of .each, on one container
RECURSIVE AliEach(_, _, _)
AliEach(items, products, maxResults) ==
  IF items = << >> THEN products
  ELSE LET item == Head(items)
           title == AliTitle(item)
           url == ensureAbsoluteUrl(item.href)
       IN  IF IntGE(Len(products), maxResults) THEN products
           ELSE IF ~item.href.present \/ trim(title) = << >>
           THEN AliEach(Tail(items), products, maxResults)
           ELSE IF url = Null
           THEN AliEach(Tail(items), products, maxResults)
           ELSE AliEach(Tail(items),
                        Append(products,
                               AliListing(trim(title), url,
                                          parsePrice(extractPriceText(item)))),
                        maxResults)

\* A search result (.result): the href and text of its first a.result__a.
ShopItem(rawHref, anchorText) == [rawHref |-> rawHref, anchorText |-> anchorText]

\* Destinations of storefront search results.
Destination(host, path) == UrlText(FALSE, Url("https", <<host>>, path))

ShopItems ==
  << ShopItem(Wrapper(Destination("shop-a.myshopify.com", <<"products", "p1">>)),
              Title.contains),
     ShopItem(Direct(Destination("b.shopify.com", <<"products", "p2">>)),
              Title.exact),
     ShopItem(Wrapper(Destination("shop-a.myshopify.com", <<"products", "p3">>)),
              Title.containsToo),
     ShopItem(Wrapper(Destination("elsewhere.example", <<"p4">>)),
              Title.exact),
     ShopItem(Wrapper(Destination("shop-a.myshopify.com", <<"p5", "100%-cotton">>)),
              Title.exact),
     \* no href
     ShopItem(ResultHref(FALSE, FALSE, FALSE, FALSE,
                         UrlText(FALSE, Url("", << >>, << >>))),
              Title.exact),
     ShopItem(Direct(Destination("b.shopify.com", <<"products", "p7">>)),
              <<" ">>),
     \* "shop-a.myshopify.com/products/p8": a destination without scheme
     ShopItem(Wrapper(UrlText(FALSE, Url("", << >>,
                                         <<"shop-a.myshopify.com", "products", "p8">>))),
              Title.longer),
     ShopItem(Wrapper(Destination("shop-a.myshopify.com",
                                  <<"products", "100%25-cotton">>)),
              Title.short),
     \* "/l/?kh=1": a wrapper without its destination parameter
     ShopItem(ResultHref(TRUE, TRUE, FALSE, FALSE,
                         UrlText(FALSE, Url("", << >>, << >>))),
              Title.upper) >>

RECURSIVE ShopEach(_, _, _)
ShopEach(items, products, maxResults) ==
  IF items = << >> THEN products
  ELSE LET item == Head(items)
           url == normalizeResultLink(item.rawHref)
           title == trim(item.anchorText)
       IN  IF IntGE(Len(products), maxResults) THEN products
           ELSE IF url = Null \/ ~SHOPIFY_DOMAIN_REGEX(url)
           THEN ShopEach(Tail(items), products, maxResults)
           ELSE IF title = << >>
           THEN ShopEach(Tail(items), products, maxResults)
           ELSE ShopEach(Tail(items),
                         Append(products, Listing("shopify", title, url)),
                         maxResults)

\* parseProducts(html) of the platform's adapter
parseProducts(platform, html, maxResults) ==
  CASE platform = "amazon" -> AmazonEach(html.items, << >>, maxResults)
    [] platform = "aliexpress" -> AliEach(html.items, << >>, maxResults)
    [] platform = "shopify" -> ShopEach(html.items, << >>, maxResults)

(* ------------------------------ bodies --------------------------------- *)

\* A response body: blank (empty, whitespace-only or not a string), the
\* marker phrases its text contains (case-insensitively), its containers.
Body(blank, phrases, items) ==
  [blank |-> blank, phrases |-> phrases, items |-> items]

\* (mutant) the marketplace check without its captcha pattern
AmazonBotPageRobotOnly(html) == html.phrases \cap {"robot check"} # {}

\* /Robot Check/i.test(html) || /captcha/i.test(html)
AmazonBotPage(html) == html.phrases \cap {"robot check", "captcha"} # {}

\* BOT_PATTERNS.some((pattern) => pattern.test(html)) of the other adapters:
\* [/captcha/i, /robot/i, /verification/i] ("robot check" holds "robot") and
\* [/captcha/i, /verification/i, /enable javascript/i]
isBotPage(platform, html) ==
  CASE platform = "amazon" -> AmazonBotPage(html)
    [] platform = "aliexpress" ->
         html.phrases \cap {"captcha", "robot", "robot check", "verification"} # {}
    [] platform = "shopify" ->
         html.phrases \cap {"captcha", "verification", "enable javascript"} # {}

ItemsOf(platform) ==
  CASE platform = "amazon" -> AmazonItems
    [] platform = "aliexpress" -> AliItems
    [] platform = "shopify" -> ShopItems

\* The pages start at one of these containers of the platform's list.
PageStarts == {1, 4, 7, 8, 11}

\* The n containers of the platform's list from container k on.
Page(platform, k, n) ==
  LET all == ItemsOf(platform)
  IN  IF k > Len(all) THEN << >>
      ELSE SubSeq(all, k, IF k + n - 1 > Len(all) THEN Len(all) ELSE k + n - 1)

Bodies(platform, starts) ==
  {Body(TRUE, {}, << >>)}
    \cup {Body(FALSE, {ph}, Page(platform, 1, MaxItems)) : ph \in {"captcha", "robot check", "robot", "verification",
                  "enable javascript"}}
    \cup {Body(FALSE, {}, Page(platform, k, n)) : k \in starts, n \in 0..MaxItems}
    \cup (IF platform = "amazon" THEN {Body(FALSE, {}, ScenarioItems)} ELSE {})

(* ------------------------------ ranking -------------------------------- *)

\* (mutant) the length term is not held at 0 from below
computeScoreUnclamped(product, q) ==
  IF product.title = << >> THEN [num |-> 0, den |-> 1]
  ELSE LET normalizedQuery == toLowerCase(q)
           normalizedTitle == toLowerCase(product.title)
           den == IF Len(normalizedQuery) > 1 THEN Len(normalizedQuery) ELSE 1
           diff == Len(normalizedTitle) - Len(normalizedQuery)
           lengthDifference == IF diff < 0 THEN -diff ELSE diff
           base == IF includes(normalizedTitle, normalizedQuery) THEN 2 * den ELSE 0
       IN  [num |-> base + den - lengthDifference, den |-> den]

\* ScraperManager.computeScore, as the fraction num / den (den > 0)
computeScore(product, q) ==
  IF product.title = << >> THEN [num |-> 0, den |-> 1]
  ELSE LET normalizedQuery == toLowerCase(q)
           normalizedTitle == toLowerCase(product.title)
           den == IF Len(normalizedQuery) > 1 THEN Len(normalizedQuery) ELSE 1
           diff == Len(normalizedTitle) - Len(normalizedQuery)
           lengthDifference == IF diff < 0 THEN -diff ELSE diff
           base == IF includes(normalizedTitle, normalizedQuery) THEN 2 * den ELSE 0
           closeness == IF den - lengthDifference > 0 THEN den - lengthDifference ELSE 0
       IN  [num |-> base + closeness, den |-> den]

\* the sign of computeScore(b) - computeScore(a) is negative
ScoreLess(b, a, q) ==
  computeScore(b, q).num * computeScore(a, q).den
    < computeScore(a, q).num * computeScore(b, q).den

\* Array.prototype.sort is stable: x goes behind everything that does not
\* score below it.
RECURSIVE InsertByScore(_, _, _)
InsertByScore(sorted, x, q) ==
  IF sorted = << >> THEN <<x>>
  ELSE IF ScoreLess(Head(sorted), x, q)
       THEN <<x>> \o sorted
       ELSE <<Head(sorted)>> \o InsertByScore(Tail(sorted), x, q)

RECURSIVE SortFrom(_, _, _)
SortFrom(rest, sorted, q) ==
  IF rest = << >> THEN sorted
  ELSE SortFrom(Tail(rest), InsertByScore(sorted, Head(rest), q), q)

\* ScraperManager.sortByRelevance
sortByRelevance(products, q) == SortFrom(products, << >>, q)

(* ----------------------------- search() -------------------------------- *)

SHOPIFY_SEARCH_BASE_URL == "https://duckduckgo.com/html/"

\* getSearchUrl() of the platform's adapter: the URL text, or the exception
\* encodeURIComponent raises.  URLSearchParams (shopify) never raises.
getSearchUrl(platform, q) ==
  CASE platform = "amazon" ->
         LET encodedQuery == encodeURIComponent(trim(q))
         IN  [threw |-> encodedQuery.threw,
              url |-> <<AMAZON_BASE_URL, "/s?k=">> \o encodedQuery.text]
    [] platform = "aliexpress" ->
         LET encodedQuery == encodeURIComponent(trim(q))
         IN  [threw |-> encodedQuery.threw,
              url |-> <<ALIEXPRESS_BASE_URL, "/wholesale?SearchText=">>
                        \o encodedQuery.text \o <<"&SortType=default">>]
    [] platform = "shopify" ->
         [threw |-> FALSE,
          url |-> <<SHOPIFY_SEARCH_BASE_URL, "?q=">> \o q
                    \o <<"+site%3Amyshopify.com+product", "&ia=web">>]

NoBody == Body(TRUE, {}, << >>)

\* What one http.get can end in: a response (status, body), an AxiosError
\* (status 0: no response, a network error or timeout), or another exception
\* raised inside the try block.
Outcome(type, status, body) == [type |-> type, status |-> status, body |-> body]

Outcomes(platform, starts) ==
  {Outcome("response", 200, b) : b \in Bodies(platform, starts)}
    \cup {Outcome("response", st, NoBody) : st \in {429, 503}}
    \cup {Outcome("axiosError", st, NoBody) : st \in {0, 404, 503}}
    \cup {Outcome("error", 0, NoBody)}

\* process.env.APIFY_PROXY_URL ("" when unset, else a proxy URL that
\* HttpsProxyAgent accepts or rejects) and whether APIFY_PROXY_GROUPS is set.
ProxyEnv(url, groups) == [APIFY_PROXY_URL |-> url, APIFY_PROXY_GROUPS |-> groups]

\* What the awaited part of resolveProxyAgent can end in: a proxy URL, an
\* exception, no proxy configuration, a proxy info without URL.
ProxyOutcomes == {"agent", "threw", "noConfiguration", "noUrl"}

\* An AxiosInstance: the adapter whose buildAxiosInstance created it, the
\* serial number of that call, and whether it carries a proxy agent.
Client(owner, serial, agent) == [owner |-> owner, serial |-> serial, agent |-> agent]
NoClient == Client("", 0, FALSE)

\* One adapter instance and its search() call.
\*   pc         "none" (not constructed), "constructed", "client" (search()
\*              awaits getHttpClient), "fetching" (awaits http.get),
\*              "backoff" (awaits the timer of maybeRetry),
\*              "resolved" / "rejected" (search() has returned / thrown)
\*   platform   BaseScraper.platform
\*   attempt    the loop variable of search()
\*   products   the value search() returned
\*   proxy      proxyAgentPromise: "unset", "pending", or settled with an
\*              "agent" or with undefined ("none")
\*   httpClient the client httpClientPromise resolved with
\* and the history of the instance, for the claims about one adapter:
\*   proxyCalls    calls of resolveProxyAgent
\*   proxyFailed   a proxy was configured and resolveProxyAgent gave none
\*   clientsBuilt  calls of buildAxiosInstance
\*   fetchClients  the clients http.get was called on
\*   started, completed     http.get calls issued / settled
\*   timersSet, timersFired setTimeout calls of maybeRetry / timers fired
\*   allTransient  every outcome so far was a 429/503, a blank body or a
\*                 network error
\*   only503       every outcome so far carried status 503
\*   lastBody      the body of the latest outcome when it was a 200 response
\*   timeoutMs     the timeout the adapter was constructed with
\*   returned      the sequence search() returned, as it was when returned
NoScraper ==
  [pc |-> "none", platform |-> "", timeoutMs |-> Num(0),
   attempt |-> 0, products |-> << >>, returned |-> << >>,
   proxy |-> "unset", httpClient |-> NoClient,
   proxyCalls |-> 0, proxyFailed |-> FALSE, clientsBuilt |-> 0, fetchClients |-> {},
   started |-> 0, completed |-> 0, timersSet |-> 0, timersFired |-> 0,
   allTransient |-> TRUE, only503 |-> TRUE, lastBody |-> NoBody]

\* The adapter without the history of its search() call.
Forget(a) ==
  [a EXCEPT !.started = 0, !.completed = 0, !.timersSet = 0, !.timersFired = 0,
            !.allTransient = TRUE, !.only503 = TRUE, !.lastBody = NoBody]

\* resolveProxyAgent() up to its first await
resolveProxyAgent(a, env) ==
  LET called == [a EXCEPT !.proxyCalls = @ + 1]
  IN  IF env.APIFY_PROXY_URL = "" /\ ~env.APIFY_PROXY_GROUPS
      THEN [called EXCEPT !.proxy = "none"]
      ELSE IF env.APIFY_PROXY_URL # ""
      THEN IF env.APIFY_PROXY_URL = "valid"
           THEN [called EXCEPT !.proxy = "agent"]
           ELSE [called EXCEPT !.proxy = "none", !.proxyFailed = TRUE]
      ELSE [called EXCEPT !.proxy = "pending"]

\* new XScraper(query, sourceUrl, timeoutMs, maxResults): the constructor of
\* BaseScraper calls resolveProxyAgent
Construct(platform, timeoutMs, env) ==
  resolveProxyAgent(
    [NoScraper EXCEPT !.pc = "constructed", !.platform = platform,
                      !.timeoutMs = timeoutMs], env)

\* getProxyAgent
getProxyAgent(a, env) ==
  IF a.proxy = "unset" THEN resolveProxyAgent(a, env) ELSE a

\* (mutant) the client is configured with an agent whatever the resolver gave
buildAxiosInstanceAgentAlways(a) ==
  [a EXCEPT !.clientsBuilt = @ + 1,
            !.httpClient = Client(a.platform, a.clientsBuilt + 1, TRUE)]

\* buildAxiosInstance, once the proxy promise has settled
buildAxiosInstance(a) ==
  [a EXCEPT !.clientsBuilt = @ + 1,
            !.httpClient = Client(a.platform, a.clientsBuilt + 1, a.proxy = "agent")]

Return(a, value) ==
  [a EXCEPT !.pc = "resolved", !.products = value, !.returned = value]
Throw(a) == [a EXCEPT !.pc = "rejected"]

\* http.get(searchUrl, ...) of attempt n
StartAttempt(a, n) ==
  [a EXCEPT !.pc = "fetching", !.attempt = n, !.started = @ + 1,
            !.fetchClients = @ \cup {a.httpClient}]

\* (mutant) getHttpClient builds a client at every call
getHttpClientAnew(a, n, env) ==
  LET b == getProxyAgent(a, env)
  IN  IF b.proxy = "pending" THEN [b EXCEPT !.pc = "client", !.attempt = n]
      ELSE StartAttempt(buildAxiosInstance(b), n)

\* const http = await this.getHttpClient(), and the http.get that follows
getHttpClient(a, n, env) ==
  IF a.httpClient # NoClient THEN StartAttempt(a, n)
  ELSE LET b == getProxyAgent(a, env)
       IN  IF b.proxy = "pending" THEN [b EXCEPT !.pc = "client", !.attempt = n]
           ELSE StartAttempt(buildAxiosInstance(b), n)

\* (mutant) the loop admits one attempt more
ForLoopOneMore(a, n, env) ==
  IF n <= maxRetries + 1 THEN getHttpClient(a, n, env) ELSE Return(a, << >>)

\* for (attempt = ...; attempt <= maxRetries; ...) { ... }  return [];
ForLoop(a, n, env) ==
  IF n <= maxRetries THEN getHttpClient(a, n, env) ELSE Return(a, << >>)

\* The timer maybeRetry awaits has fired: `continue`.
Awakened(a, env) == ForLoop([a EXCEPT !.timersFired = @ + 1], a.attempt + 1, env)

\* (mutant) maybeRetry delays after the final attempt too
maybeRetryAlways(a, env) == [a EXCEPT !.pc = "backoff", !.timersSet = @ + 1]

\* (mutant) a failed attempt that is followed by a delay is not counted
maybeRetryUncounted(a, env) ==
  IF a.attempt >= maxRetries
  THEN ForLoop(a, a.attempt + 1, env)
  ELSE [a EXCEPT !.pc = "backoff", !.timersSet = @ + 1, !.attempt = @ - 1]

\* (mutant) maybeRetry is called without await: the loop goes on at once
maybeRetryNotAwaited(a, env) ==
  IF a.attempt >= maxRetries
  THEN ForLoop(a, a.attempt + 1, env)
  ELSE ForLoop([a EXCEPT !.timersSet = @ + 1], a.attempt + 1, env)

\* await this.maybeRetry(attempt, maxRetries);  continue
maybeRetry(a, env) ==
  IF a.attempt >= maxRetries
  THEN ForLoop(a, a.attempt + 1, env)
  ELSE [a EXCEPT !.pc = "backoff", !.timersSet = @ + 1]

\* The branch of search() an outcome takes.
SearchBranch(platform, o) ==
  IF o.type = "response"
  THEN IF o.status = 503 \/ o.status = 429 THEN "status"
       ELSE IF o.body.blank THEN "empty"
       ELSE IF isBotPage(platform, o.body) THEN "challenge"
       ELSE "parsed"
  ELSE "caught"

IsTransient(o) ==
  \/ o.status \in {429, 503}
  \/ o.type = "response" /\ o.status = 200 /\ o.body.blank
  \/ o.type = "axiosError" /\ o.status = 0

Observed(a, o) ==
  [a EXCEPT !.completed = @ + 1,
            !.allTransient = @ /\ IsTransient(o),
            !.only503 = @ /\ o.status = 503,
            !.lastBody = IF o.type = "response" /\ o.status = 200
                         THEN o.body ELSE NoBody]

\* The body of the for loop of search(), from the settling of http.get on.
OnOutcome(a, o, maxResults, env) ==
  LET branch == SearchBranch(a.platform, o)
      seen == Observed(a, o)
  IN  CASE branch \in {"status", "empty", "caught"} -> maybeRetry(seen, env)
        [] branch = "challenge" -> Return(seen, << >>)
        [] branch = "parsed" ->
             Return(seen, parseProducts(a.platform, o.body, maxResults))

\* The proxy promise of the adapter settles; a search() that awaits the
\* client goes on to its http.get.
OnProxy(a, outcome) ==
  LET settled == [a EXCEPT !.proxy = IF outcome = "agent" THEN "agent" ELSE "none",
                           !.proxyFailed = outcome # "agent"]
  IN  IF a.pc = "client"
      THEN StartAttempt(buildAxiosInstance(settled), a.attempt)
      ELSE settled

\* search() of a constructed adapter, up to its first await
Search(a, q, env) ==
  LET searchUrl == getSearchUrl(a.platform, q)
  IN  IF searchUrl.threw THEN Throw(a)
      ELSE IF searchUrl.url = << >> THEN Return(a, << >>)
      ELSE ForLoop(a, 1, env)

(* ------------------------------ runAll() ------------------------------- *)

\* The promise of platforms.map(async (platform) => { try ... catch ... })
Pending == [state |-> "pending", value |-> << >>]
Fulfilled(value) == [state |-> "fulfilled", value |-> value]
Rejected == [state |-> "rejected", value |-> << >>]

\* (mutant) equal scores come out in reverse order
RECURSIVE InsertBeforeEqual(_, _, _)
InsertBeforeEqual(sorted, x, q) ==
  IF sorted = << >> THEN <<x>>
  ELSE IF ~ScoreLess(x, Head(sorted), q)
       THEN <<x>> \o sorted
       ELSE <<Head(sorted)>> \o InsertBeforeEqual(Tail(sorted), x, q)

RECURSIVE SortFromUnstable(_, _, _)
SortFromUnstable(rest, sorted, q) ==
  IF rest = << >> THEN sorted
  ELSE SortFromUnstable(Tail(rest), InsertBeforeEqual(sorted, Head(rest), q), q)

\* (mutant) the task without its try/catch
TaskNoCatch(a, q) ==
  CASE a.pc = "resolved" -> Fulfilled(sortByRelevance(a.products, q))
    [] a.pc = "rejected" -> Rejected
    [] OTHER -> Pending

\* (mutant) the task ranks without keeping the order of equal scores
TaskUnstable(a, q) ==
  CASE a.pc = "resolved" -> Fulfilled(SortFromUnstable(a.products, << >>, q))
    [] a.pc = "rejected" -> Fulfilled(<< >>)
    [] OTHER -> Pending

\* (mutant) sort() called on the array search() returned
AfterSortInPlace(a, q) ==
  IF a.pc = "resolved" THEN [a EXCEPT !.products = sortByRelevance(@, q)] ELSE a

\* [...products].sort(...): the adapter of a task that has ranked its
\* result; the array search() returned is not the one sorted
AfterSort(a, q) == a

Task(a, q) ==
  CASE a.pc = "resolved" -> Fulfilled(sortByRelevance(a.products, q))
    [] a.pc = "rejected" -> Fulfilled(<< >>)
    [] OTHER -> Pending

\* (mutant) Promise.race in place of Promise.all
PromiseRace(tasks) ==
  IF \E p \in PlatformNames : tasks[p].state = "rejected" THEN "rejected"
  ELSE IF \E p \in PlatformNames : tasks[p].state = "fulfilled" THEN "fulfilled"
  ELSE "pending"

\* Promise.all
PromiseAll(tasks) ==
  IF \E p \in PlatformNames : tasks[p].state = "rejected" THEN "rejected"
  ELSE IF \A p \in PlatformNames : tasks[p].state = "fulfilled" THEN "fulfilled"
  ELSE "pending"

\* (mutant) the accumulator's keys in another order
InitialMatchesReordered ==
  << [platform |-> "aliexpress", listings |-> << >>],
     [platform |-> "amazon", listings |-> << >>],
     [platform |-> "shopify", listings |-> << >>] >>

\* platforms.reduce(..., { amazon: [], aliexpress: [], shopify: [] })
InitialMatches ==
  << [platform |-> "amazon", listings |-> << >>],
     [platform |-> "aliexpress", listings |-> << >>],
     [platform |-> "shopify", listings |-> << >>] >>

RECURSIVE Reduce(_, _, _)
Reduce(acc, index, tasks) ==
  IF index > Len(Platforms) THEN acc
  ELSE Reduce([i \in 1..Len(acc) |->
                 IF acc[i].platform = Platforms[index]
                 THEN [platform |-> acc[i].platform,
                       listings |-> tasks[Platforms[index]].value]
                 ELSE acc[i]],
              index + 1, tasks)

(* --------------------------- entry points ------------------------------ *)

\* A JSON value of a request: undefined (the key is missing), a number, or a
\* string; text is the string's, number the number's.
Undefined == [type |-> "undefined", text |-> << >>, number |-> Num(0)]
JsonNumber(n) == [type |-> "number", text |-> << >>, number |-> n]
JsonString(text) == [type |-> "string", text |-> text, number |-> Num(0)]

\* A request: the entry point it comes through ("http": POST /tracker,
\* "batch": the actor's input), its body ("absent", "malformed": the
\* APIFY_INPUT text is not JSON, "object") and the keys of the body.
Request(entry, body, productQuery, maxResultsPerPlatform) ==
  [entry |-> entry, body |-> body, productQuery |-> productQuery,
   maxResultsPerPlatform |-> maxResultsPerPlatform]

NoRequest == Request("none", "absent", Undefined, Undefined)

Query ==
  [ok |-> <<"a", "b">>,
   malformed |-> <<"a", LoneSurrogate>>,
   empty |-> << >>,
   blank |-> <<" ">>,
   padded |-> <<"a", "b", " ">>,
   \* the end-to-end scenario's query
   scenario |->
     <<"w", "i", "r", "e", "l", "e", "s", "s", " ", "m", "o", "u", "s", "e">>]

Queries == {Query.ok, Query.malformed, Query.empty, Query.blank, Query.scenario}

Requests ==
  {Request(entry, "object", pq, mr) :
     entry \in {"http", "batch"},
     pq \in {Undefined, JsonNumber(Num(7)), JsonString(<< >>),
             JsonString(<<" ">>), JsonString(Query.padded)},
     mr \in {Undefined, JsonNumber(Num(1)), JsonNumber(Num(0)),
             JsonNumber(NumAndFraction(2))}}
    \cup {Request("http", "absent", Undefined, Undefined),
          Request("batch", "absent", Undefined, Undefined),
          Request("batch", "malformed", Undefined, Undefined)}

\* (mutant) the route tests the length without trimming
RouteRejectsUntrimmed(request) ==
  request.productQuery.type # "string" \/ Len(request.productQuery.text) = 0

\* typeof productQuery !== 'string' || productQuery.trim().length === 0
RouteRejects(request) ==
  request.productQuery.type # "string" \/ Len(trim(request.productQuery.text)) = 0

\* Actor.main up to runTracker: JSON.parse throws, productQuery?.trim() of a
\* value that is not a string throws a TypeError, !productQuery throws
MainThrows(request) ==
  \/ request.body = "malformed"
  \/ request.productQuery.type = "number"
  \/ request.productQuery.type = "undefined"
  \/ trim(request.productQuery.text) = << >>

\* typeof input?.maxResultsPerPlatform === 'number' && input.maxResultsPerPlatform > 0
MainOverrides(request) ==
  LET value == request.maxResultsPerPlatform
  IN  IF value.type = "number"
         /\ (value.number.floor > 0 \/ (value.number.floor = 0 /\ ~value.number.whole))
      THEN [present |-> TRUE, value |-> value.number]
      ELSE NoOverrides

(* ---------------------------- the program ------------------------------ *)

VARIABLES
  env,        \* process.env: the variables buildAppConfig reads, and the
              \* proxy variables
  request,    \* the request an entry point was given
  response,   \* what the entry point answered: "none" (not yet), "ok",
              \* "400", "500", "thrown"
  query,      \* the query of the ScraperManager and of its adapters
  config,     \* ScraperManager.config
  mgr,        \* runAll: "none" (no ScraperManager), "idle", "awaiting"
              \* (Promise.all), "returned", "rejected"; "alone": an adapter
              \* is used without a manager; "score": computeScore is
              \* called on its own
  scraper,    \* the adapter of each platform
  results,    \* the promise of each platform's task
  matches,    \* the PlatformMatches runAll returned
  product,    \* the listing computeScore was given
  score       \* the score computeScore returned

vars ==
  <<env, request, response, query, config, mgr, scraper, results, matches,
    product, score>>

NoScore == [num |-> 0, den |-> 0]
NoProduct == Listing("", << >>, Null)

\* The call history is kept for an adapter used on its own; under runAll the
\* three interleaved histories are left out of the state.
Kept(a) == IF mgr = "alone" THEN a ELSE Forget(a)

\* The result pages an adapter is served: any under SpecSearch, those that
\* start at the first container under runAll.
Starts == IF mgr = "alone" THEN PageStarts ELSE {1}

InitData(queries, environments, proxies) ==
  /\ query \in queries
  /\ \E e \in environments, proxy \in proxies :
       /\ env = [variables |-> e, proxy |-> proxy]
       /\ config = buildAppConfig(e, NoOverrides)
  /\ scraper = [p \in PlatformNames |-> NoScraper]
  /\ results = [p \in PlatformNames |-> Pending]
  /\ matches = << >>
  /\ product = NoProduct
  /\ score = NoScore

\* trackerService.runTracker: new ScraperManager(productQuery, sourceUrl, config)
Init ==
  /\ InitData({Query.ok, Query.malformed},
              {DefaultTimeouts(EnvText.unset), DefaultTimeouts(EnvText.twoAndHalf)},
              {ProxyEnv("", FALSE), ProxyEnv("", TRUE)})
  /\ mgr = "idle"
  /\ request = NoRequest
  /\ response = "none"

\* runAll() up to the await, for the query q: every task constructs its
\* adapter and calls search(), which runs up to its first await.
RunAllFrom(q, cfg) ==
  /\ mgr' = "awaiting"
  /\ scraper' = [p \in PlatformNames |->
                   AfterSort(
                     Forget(Search(Construct(p, cfg.scraperTimeouts[p], env.proxy),
                                   q, env.proxy)),
                     q)]
  /\ results' = [p \in PlatformNames |-> Task(scraper'[p], q)]
  /\ matches' = matches

RunAll ==
  /\ mgr = "idle"
  /\ RunAllFrom(query, config)
  /\ UNCHANGED <<env, request, response, query, config, product, score>>

\* The adapter after a step of its search(): under runAll its task goes on
\* with the ranking when search() has returned.
AfterTask(a) == IF mgr = "alone" THEN a ELSE AfterSort(a, query)

\* The task awaiting search() goes on when search() has settled.
Tasks(after) ==
  IF mgr = "alone" THEN results
  ELSE [p \in PlatformNames |-> Task(after[p], query)]

\* The http.get of one adapter settles; its search() goes on to the next
\* await or returns, and then its task settles.
FetchSettles(p) ==
  /\ scraper[p].pc = "fetching"
  /\ \E o \in Outcomes(p, Starts) :
       scraper' = [scraper EXCEPT
                     ![p] = AfterTask(Kept(OnOutcome(@, o, config.maxResultsPerPlatform,
                                                     env.proxy)))]
  /\ results' = Tasks(scraper')
  /\ UNCHANGED <<env, request, response, query, config, mgr, matches, product, score>>

\* The backoff timer of one adapter fires.
TimerFires(p) ==
  /\ scraper[p].pc = "backoff"
  /\ scraper' = [scraper EXCEPT ![p] = AfterTask(Kept(Awakened(@, env.proxy)))]
  /\ results' = Tasks(scraper')
  /\ UNCHANGED <<env, request, response, query, config, mgr, matches, product, score>>

\* The awaited part of one adapter's resolveProxyAgent ends.
ProxySettles(p) ==
  /\ scraper[p].proxy = "pending"
  /\ \E outcome \in ProxyOutcomes :
       scraper' = [scraper EXCEPT ![p] = AfterTask(Kept(OnProxy(@, outcome)))]
  /\ results' = Tasks(scraper')
  /\ UNCHANGED <<env, request, response, query, config, mgr, matches, product, score>>

\* Promise.all settles and runAll assembles its result, or rejects; the entry
\* point that awaits runTracker answers.
Join ==
  /\ mgr = "awaiting"
  /\ PromiseAll(results) # "pending"
  /\ IF PromiseAll(results) = "fulfilled"
     THEN /\ mgr' = "returned"
          /\ matches' = Reduce(InitialMatches, 1, results)
          /\ response' = IF request.entry = "none" THEN response ELSE "ok"
     ELSE /\ mgr' = "rejected"
          /\ matches' = matches
          /\ response' = CASE request.entry = "http" -> "500"
                           [] request.entry = "batch" -> "thrown"
                           [] OTHER -> response
  /\ UNCHANGED <<env, request, query, config, scraper, results, product, score>>

Next ==
  \/ RunAll
  \/ \E p \in PlatformNames : FetchSettles(p)
  \/ \E p \in PlatformNames : TimerFires(p)
  \/ \E p \in PlatformNames : ProxySettles(p)
  \/ Join

Spec == Init /\ [][Next]_vars

\* runAll under an environment in which every http.get settles (response,
\* error or timeout), every timer fires and every proxy resolution settles,
\* and in which the continuations of settled promises run: as long as a step
\* is possible, a step is taken.
Fairness == WF_vars(Next)

\* A run with the cap 2 and a proxy to resolve.
InitLive ==
  /\ InitData({Query.ok, Query.malformed}, {DefaultTimeouts(EnvText.two)},
              {ProxyEnv("", TRUE)})
  /\ mgr = "idle"
  /\ request = NoRequest
  /\ response = "none"

SpecLive == InitLive /\ [][Next]_vars /\ Fairness

\* One adapter on its own: new XScraper(...), then search()
InitSearch ==
  /\ InitData(Queries, {DefaultTimeouts(e) : e \in EnvValues},
              {ProxyEnv("", FALSE), ProxyEnv("valid", FALSE),
               ProxyEnv("invalid", FALSE), ProxyEnv("", TRUE)})
  /\ mgr = "alone"
  /\ request = NoRequest
  /\ response = "none"

New(p) ==
  /\ mgr = "alone"
  /\ \A other \in PlatformNames : scraper[other].pc = "none"
  /\ scraper' = [scraper EXCEPT
                   ![p] = Construct(p, config.scraperTimeouts[p], env.proxy)]
  /\ UNCHANGED <<env, request, response, query, config, mgr, results, matches,
                 product, score>>

SearchAlone(p) ==
  /\ mgr = "alone"
  /\ scraper[p].pc = "constructed"
  /\ scraper' = [scraper EXCEPT ![p] = Search(@, query, env.proxy)]
  /\ UNCHANGED <<env, request, response, query, config, mgr, results, matches,
                 product, score>>

NextSearch ==
  \/ \E p \in PlatformNames : New(p)
  \/ \E p \in PlatformNames : SearchAlone(p)
  \/ \E p \in PlatformNames : FetchSettles(p)
  \/ \E p \in PlatformNames : TimerFires(p)
  \/ \E p \in PlatformNames : ProxySettles(p)

SpecSearch == InitSearch /\ [][NextSearch]_vars

\* The entry points: a request comes in through the HTTP route or as the
\* input of the batch job.
InitEntry ==
  /\ InitData({Query.empty},
              {DefaultTimeouts(EnvText.unset),
               DefaultTimeouts(EnvText.two),
               Environment(EnvText.minusOne, EnvText.minusFive, EnvText.half,
                           EnvText.notANumber)},
              {ProxyEnv("", FALSE)})
  /\ mgr = "none"
  /\ request \in Requests
  /\ response = "none"

\* router.post('/', ...) up to `await runTracker(...)`
Post ==
  /\ mgr = "none"
  /\ response = "none"
  /\ request.entry = "http"
  /\ IF RouteRejects(request)
     THEN /\ response' = "400"
          /\ UNCHANGED <<query, config, mgr, scraper, results, matches>>
     ELSE /\ response' = response
          /\ query' = request.productQuery.text
          /\ config' = config
          /\ RunAllFrom(request.productQuery.text, config)
  /\ UNCHANGED <<env, request, product, score>>

\* Actor.main up to `await runTracker(...)`
Main ==
  /\ mgr = "none"
  /\ response = "none"
  /\ request.entry = "batch"
  /\ IF MainThrows(request)
     THEN /\ response' = "thrown"
          /\ UNCHANGED <<query, config, mgr, scraper, results, matches>>
     ELSE /\ response' = response
          /\ query' = trim(request.productQuery.text)
          /\ config' = buildAppConfig(env.variables, MainOverrides(request))
          /\ RunAllFrom(trim(request.productQuery.text),
                        buildAppConfig(env.variables, MainOverrides(request)))
  /\ UNCHANGED <<env, request, product, score>>

NextEntry ==
  \/ Post
  \/ Main
  \/ \E p \in PlatformNames : FetchSettles(p)
  \/ \E p \in PlatformNames : TimerFires(p)
  \/ Join

SpecEntry == InitEntry /\ [][NextEntry]_vars

\* computeScore on its own, for any title and query up to the bounds.
RECURSIVE Texts(_)
Texts(n) ==
  IF n = 0 THEN {<< >>}
  ELSE Texts(n - 1) \cup {Append(t, c) : t \in Texts(n - 1), c \in {"a", "B", " "}}

InitScore ==
  /\ InitData(Texts(MaxQueryLen), {DefaultTimeouts(EnvText.unset)},
              {ProxyEnv("", FALSE)})
  /\ mgr = "score"
  /\ request = NoRequest
  /\ response = "none"

ComputeScore ==
  /\ mgr = "score"
  /\ score = NoScore
  /\ \E title \in Texts(MaxTitleLen) :
       /\ product' = Listing("amazon", title, Null)
       /\ score' = computeScore(Listing("amazon", title, Null), query)
  /\ UNCHANGED <<env, request, response, query, config, mgr, scraper, results, matches>>

NextScore == ComputeScore

SpecScore == InitScore /\ [][NextScore]_vars

(* ------------------------------- claims -------------------------------- *)

ThePlatforms == {"amazon", "aliexpress", "shopify"}

Settled(a) == a.pc \in {"resolved", "rejected"}

\* the listings runAll returned for platform p
EntryOf(p) ==
  LET i == CHOOSE j \in 1..Len(matches) : matches[j].platform = p
  IN  matches[i].listings

Occurrences(seq, x) == Cardinality({i \in 1..Len(seq) : seq[i] = x})
PositionIn(seq, x) == CHOOSE i \in 1..Len(seq) : seq[i] = x

\* out is input ranked: the same listings, by score descending, equal scores
\* in the order of input
IsRanked(out, input, q) ==
  /\ Len(out) = Len(input)
  /\ \A i \in 1..Len(input) : Occurrences(out, input[i]) = Occurrences(input, input[i])
  /\ \A i, j \in 1..Len(out) :
       i < j =>
         /\ ~ScoreLess(out[i], out[j], q)
         /\ ~ScoreLess(out[j], out[i], q)
              => PositionIn(input, out[i]) <= PositionIn(input, out[j])

\* C1: when the search() of a platform's adapter throws, runAll still
\* resolves, that platform's entry is empty and every other platform's entry
\* is its own adapter's result, ranked.
C1_Isolation ==
  /\ (\E p \in ThePlatforms : scraper[p].pc = "rejected") => mgr # "rejected"
  /\ mgr = "returned" =>
       \A p \in ThePlatforms :
         /\ scraper[p].pc = "rejected" => EntryOf(p) = << >>
         /\ scraper[p].pc = "resolved" =>
              IsRanked(EntryOf(p), scraper[p].products, query)

C1_Witness ==
  /\ mgr = "returned"
  /\ \E p, other \in ThePlatforms :
       /\ scraper[p].pc = "rejected"
       /\ scraper[other].pc = "resolved"
       /\ Len(scraper[other].products) >= 2
       /\ EntryOf(other) # scraper[other].products

\* C2: runAll never rejects, and what it returns has exactly one entry per
\* platform, in the order amazon, aliexpress, shopify, each a (possibly
\* empty) sequence.
C2_Complete ==
  /\ mgr # "rejected"
  /\ mgr = "returned" =>
       /\ Len(matches) = 3
       /\ matches[1].platform = "amazon"
       /\ matches[2].platform = "aliexpress"
       /\ matches[3].platform = "shopify"
       /\ \A i \in 1..3 : Len(matches[i].listings) >= 0

\* the worst outcome: one adapter threw, no platform has a listing
C2_Witness ==
  /\ mgr = "returned"
  /\ \E p \in ThePlatforms : scraper[p].pc = "rejected"
  /\ \A i \in 1..3 : matches[i].listings = << >>

\* C3: runAll returns only when the search() of all three adapters has
\* returned or thrown: none is fetching or in backoff.
C3_Join ==
  mgr = "returned" => \A p \in ThePlatforms : Settled(scraper[p])

\* runAll returned after one adapter needed three attempts and another one
C3_Witness ==
  /\ mgr = "returned"
  /\ \E p, other \in ThePlatforms :
       scraper[p].attempt = 3 /\ scraper[other].attempt = 1

\* C4: search() never raises: its promise resolves for every query and every
\* sequence of fetch outcomes.
C4_SearchNeverRaises ==
  \A p \in ThePlatforms : scraper[p].pc # "rejected"

\* C5: one search() issues at most 3 fetch attempts, and when all 3 end in a
\* transient outcome it returns the empty sequence without a 4th attempt.
C5_RetryCap ==
  \A p \in ThePlatforms :
    /\ scraper[p].started <= 3
    /\ scraper[p].completed = 3 /\ scraper[p].allTransient =>
         /\ scraper[p].pc = "resolved"
         /\ scraper[p].products = << >>
         /\ scraper[p].started = 3

C5_Witness ==
  \E p \in ThePlatforms :
    /\ scraper[p].completed = 3
    /\ scraper[p].allTransient
    /\ scraper[p].pc = "resolved"

ChallengeMarkers(p) ==
  CASE p = "amazon" -> {"robot check", "captcha"}
    [] p = "aliexpress" -> {"captcha", "robot", "robot check", "verification"}
    [] p = "shopify" -> {"captcha", "verification", "enable javascript"}

IsChallenge(p, body) ==
  ~body.blank /\ body.phrases \cap ChallengeMarkers(p) # {}

\* C7: when the body of attempt k is a challenge page, search() returns the
\* empty sequence at once: no attempt and no delay follows attempt k.
C7_ChallengeTerminal ==
  \A p \in ThePlatforms :
    IsChallenge(p, scraper[p].lastBody) =>
      /\ scraper[p].pc = "resolved"
      /\ scraper[p].products = << >>
      /\ scraper[p].started = scraper[p].completed
      /\ scraper[p].timersSet = scraper[p].completed - 1
      /\ scraper[p].timersFired = scraper[p].timersSet

C7_Witness ==
  /\ \E p \in ThePlatforms :
       IsChallenge(p, scraper[p].lastBody) /\ scraper[p].completed = 1
           /\ scraper[p].started = 1 /\ scraper[p].timersSet = 0

\* C8: an adapter has at most one fetch in flight, and an attempt starts only
\* when the outcome of the one before is known and its backoff timer fired.
C8_Sequential ==
  \A p \in ThePlatforms :
    LET a == scraper[p]
    IN  /\ a.started - a.completed \in {0, 1}
        /\ a.pc = "fetching" <=> a.started = a.completed + 1
        /\ a.pc = "fetching" =>
             /\ a.timersFired = a.timersSet
             /\ a.completed = a.attempt - 1
        /\ a.pc = "backoff" =>
             /\ a.started = a.completed
             /\ a.timersSet = a.timersFired + 1

\* the third attempt is in flight, after two elapsed delays
C8_Witness ==
  \E p \in ThePlatforms :
    /\ scraper[p].pc = "fetching"
    /\ scraper[p].attempt = 3
    /\ scraper[p].timersFired = 2

\* C9: search() returns no more than maxResults listings, and no entry of
\* the result of runAll is longer than the configured maxResultsPerPlatform.
\* (An integer length is at most floor + fraction iff it is at most floor.)
C9_ResultCap ==
  /\ \A p \in ThePlatforms :
       scraper[p].pc = "resolved" =>
         Len(scraper[p].products) <= config.maxResultsPerPlatform.floor
  /\ mgr = "returned" =>
       \A i \in 1..Len(matches) :
         Len(matches[i].listings) <= config.maxResultsPerPlatform.floor

\* a marketplace container that carries a sponsored marker
CarriesSponsoredMarker(item) ==
  item.componentType = "sp-sponsored-result" \/ item.sponsoredLabel

\* a marketplace container the page offers as a result: no sponsored marker,
\* a title, a link that is a URL
Eligible(item) ==
  /\ item.componentType = "s-search-result"
  /\ ~item.sponsoredLabel
  /\ trim(item.title) # << >>
  /\ item.rawLink.present
  /\ item.rawLink.parses

ParsedPage(a) == a.pc = "resolved" /\ ~a.lastBody.blank /\ a.lastBody.phrases = {}

\* C10: no container with a sponsored marker is in the marketplace adapter's
\* output, and the sponsored containers skipped do not use up the cap: the
\* output is the eligible containers in page order, all of them unless the
\* cap is reached.
C10_NoSponsored ==
  LET a == scraper["amazon"]
      items == a.lastBody.items
      eligible == SelectSeq(items, Eligible)
      cap == config.maxResultsPerPlatform
  IN  ParsedPage(a) =>
        /\ \A i \in 1..Len(items) :
             CarriesSponsoredMarker(items[i]) =>
               \A k \in 1..Len(a.products) :
                 a.products[k].title # trim(items[i].title)
        /\ Len(a.products) <= Len(eligible)
        /\ \A k \in 1..Len(a.products) :
             a.products[k].title = trim(eligible[k].title)
        /\ Len(a.products) < Len(eligible) =>
             IF cap.whole THEN Len(a.products) >= cap.floor
             ELSE Len(a.products) > cap.floor

\* a page with a sponsored container ahead of an eligible one, parsed with
\* the cap reached
C10_Witness ==
  LET a == scraper["amazon"]
      items == a.lastBody.items
  IN  /\ ParsedPage(a)
      /\ \E i, j \in 1..Len(items) :
           i < j /\ CarriesSponsoredMarker(items[i]) /\ Eligible(items[j])
      /\ Len(a.products) = 2
      /\ config.maxResultsPerPlatform = [floor |-> 2, whole |-> TRUE]

\* a text with a scheme and a host
WellFormedAbsolute(url) == url.scheme # "" /\ url.host # << >>

\* C11: the url of every listing an adapter returns is a well-formed
\* absolute URL: it has a scheme and a host.
C11_AbsoluteUrls ==
  \A p \in ThePlatforms :
    scraper[p].pc = "resolved" =>
      \A k \in 1..Len(scraper[p].products) :
        WellFormedAbsolute(scraper[p].products[k].url)

\* the product code in the path of a raw link, as written
HasCode(rawLink) ==
  DpMatch(rawLink.url.path) # {} \/ GpMatch(rawLink.url.path) # {}

CodeOf(rawLink) ==
  LET path == rawLink.url.path
  IN  IF DpMatch(path) # {} THEN path[Min(DpMatch(path)) + 1]
      ELSE path[Min(GpMatch(path)) + 2]

\* C12: a marketplace listing whose raw link, absolute or starting with
\* "/", has /dp/<code> or /gp/product/<code> in its path carries the url
\* https://www.amazon.com/dp/<CODE>, the code in upper case.
C12_Canonical ==
  LET a == scraper["amazon"]
      items == a.lastBody.items
  IN  ParsedPage(a) =>
        \A i \in 1..Len(items) : \A k \in 1..Len(a.products) :
          /\ Eligible(items[i])
          /\ a.products[k].title = trim(items[i].title)
          /\ items[i].rawLink.http \/ items[i].rawLink.slash
          /\ HasCode(items[i].rawLink)
          => a.products[k].url
               = Url("https", <<"www.amazon.com">>,
                     <<"dp", toUpperCase(CodeOf(items[i].rawLink))>>)

\* The relevance score as stated: 0 for an empty title, otherwise 2 when the
\* lower-cased title contains the lower-cased query, plus
\* max(0, 1 - |len(title) - len(query)| / max(len(query), 1)); as a fraction
\* over max(len(query), 1).
Abs(n) == IF n < 0 THEN -n ELSE n
Max(m, n) == IF m > n THEN m ELSE n

StatedScore(title, q) ==
  LET d == Max(Len(q), 1)
  IN  IF title = << >> THEN [num |-> 0, den |-> d]
      ELSE [num |-> (IF includes(toLowerCase(title), toLowerCase(q)) THEN 2 * d ELSE 0)
                      + Max(0, d - Abs(Len(title) - Len(q))),
            den |-> d]

\* x < y for fractions with positive denominators
Below(x, y) == x.num * y.den < y.num * x.den

\* C13: each platform's entry in the result of runAll is in descending order
\* of score, and two listings of equal score are in the order in which the
\* adapter returned them.
C13_Ranked ==
  mgr = "returned" =>
    \A p \in ThePlatforms :
      scraper[p].pc = "resolved" =>
        LET out == EntryOf(p)
            input == scraper[p].products
        IN  \A i, j \in 1..Len(out) :
              i < j =>
                /\ ~Below(StatedScore(out[i].title, query), StatedScore(out[j].title, query))
                /\ ~Below(StatedScore(out[j].title, query), StatedScore(out[i].title, query))
                     => PositionIn(input, out[i]) < PositionIn(input, out[j])

\* an entry in the order exact title, title containing the query, and a
\* second title of the same score that the adapter returned later than the
\* first; the adapter returned the exact title between them
C13_Witness ==
  /\ mgr = "returned"
  /\ query = Query.ok
  /\ Len(EntryOf("shopify")) = 3
  /\ EntryOf("shopify")[1].title = Title.exact
  /\ EntryOf("shopify")[2].title = Title.contains
  /\ EntryOf("shopify")[3].title = Title.containsToo
  /\ scraper["shopify"].products[2].title = Title.exact

\* C14: the score computeScore returns for a title and a query is the stated
\* one: it is defined (no division by zero), and lies within [0, 3], its
\* length term within [0, 1].
C14_Score ==
  score # NoScore =>
    LET stated == StatedScore(product.title, query)
        contains == product.title # << >>
                      /\ includes(toLowerCase(product.title), toLowerCase(query))
        lengthTerm == score.num - (IF contains THEN 2 * score.den ELSE 0)
    IN  /\ score.den > 0
        /\ score.num * stated.den = stated.num * score.den
        /\ product.title = << >> => score.num = 0
        /\ 0 <= lengthTerm /\ lengthTerm <= score.den
        /\ 0 <= score.num /\ score.num <= 3 * score.den

\* the score of a three-character title for the empty query: 2 for the
\* containment and a length term held at 0
C14_Witness ==
  /\ score # NoScore
  /\ query = << >>
  /\ Len(product.title) = 3
  /\ score.num = 2 * score.den

\* the marketplace adapter has parsed the page of the end-to-end scenario
\* for the scenario's query, under a cap that admits a listing
ScenarioParsed ==
  /\ query = Query.scenario
  /\ scraper["amazon"].pc = "resolved"
  /\ scraper["amazon"].lastBody = Body(FALSE, {}, ScenarioItems)
  /\ ~IntGE(0, config.maxResultsPerPlatform)

\* C15: for the query "wireless mouse" and a page with the item "Wireless
\* Mouse 2.4G" at "$12.99" and the sponsored item "Sponsored Mouse Deal", the
\* marketplace output is exactly one listing, the one that is not sponsored,
\* with price 12.99 and currency "USD".
C15_Scenario ==
  ScenarioParsed =>
    LET products == scraper["amazon"].products
    IN  /\ Len(products) = 1
        /\ products[1].title = Title.scenario
        /\ products[1].price = [null |-> FALSE, int |-> <<"1", "2">>, frac |-> <<"9", "9">>]
        /\ products[1].currency = "USD"

C15_Witness ==
  /\ ScenarioParsed
  /\ Len(scraper["amazon"].products) = 1
  /\ scraper["amazon"].products[1].currency = "USD"
  /\ scraper["amazon"].products[1].url = Canonical("b0abc12345")

\* C16: for a query that is empty or only whitespace, search() of each
\* adapter returns the empty sequence at once: it makes no fetch attempt and
\* no backoff delay.
C16_EmptyQuery ==
  trim(query) = << >> =>
    \A p \in ThePlatforms :
      /\ scraper[p].pc \in {"none", "constructed", "resolved"}
      /\ scraper[p].started = 0
      /\ scraper[p].timersSet = 0
      /\ scraper[p].products = << >>

\* a productQuery that is missing, not a string, or empty after trim
InvalidQuery(value) == value.type # "string" \/ trim(value.text) = << >>

\* C17: a request whose productQuery is missing, not a string or empty after
\* trim is answered with an error by either entry point, at the step that
\* handles it, and the orchestrator is never run for it: there is no
\* ScraperManager, no adapter and no fetch.
C17_Guard ==
  /\ [](request.entry # "none" /\ InvalidQuery(request.productQuery) =>
          /\ mgr = "none"
          /\ \A p \in ThePlatforms : scraper[p] = NoScraper
          /\ response \in {"none", "400", "thrown"})
  /\ [][request.entry # "none" /\ InvalidQuery(request.productQuery) =>
          response' \in {"400", "thrown"}]_vars

\* the route has answered 400 to a productQuery of one space
C17_Witness ==
  /\ request.entry = "http"
  /\ request.productQuery = JsonString(<<" ">>)
  /\ response = "400"
  /\ mgr = "none"

\* C18: the proxy resolver of an adapter instance is called at most once,
\* and not before the instance's first use: an instance that has not begun a
\* fetch attempt has not called it.
C18_LazyOnce ==
  \A p \in ThePlatforms :
    /\ scraper[p].proxyCalls <= 1
    /\ scraper[p].started = 0 /\ scraper[p].pc # "client" =>
         scraper[p].proxyCalls = 0

C20_ProxyFailure ==
  \A p \in ThePlatforms :
    LET a == scraper[p]
    IN  a.proxyFailed =>
          /\ a.proxy = "none"
          /\ a.pc # "none"
          /\ ~a.httpClient.agent
          /\ \A c \in a.fetchClients : ~c.agent
          /\ a.pc = "rejected" => getSearchUrl(p, query).threw
          /\ a.pc \in {"fetching", "backoff", "resolved"} =>
               /\ a.started >= 1
               /\ a.fetchClients = {a.httpClient}

\* after a failed proxy resolution, search() returned the listings of a page
\* it fetched without a proxy
C20_Witness ==
  \E p \in ThePlatforms :
    /\ scraper[p].proxyFailed
    /\ scraper[p].pc = "resolved"
    /\ Len(scraper[p].products) >= 1
    /\ scraper[p].httpClient # NoClient
    /\ ~scraper[p].httpClient.agent

\* the title a wholesale card states: the first non-empty of the title
\* attribute, the two title-class texts and the anchor text
StatedTitle(item) ==
  IF item.titleAttr.present /\ item.titleAttr.text # << >> THEN item.titleAttr.text
  ELSE IF item.multiTitle # << >> THEN item.multiTitle
  ELSE IF item.manhattanTitle # << >> THEN item.manhattanTitle
  ELSE item.anchorText

\* the wholesale platform's base origin
WholesaleOrigin == [scheme |-> "https", host |-> <<"www.aliexpress.com">>]

\* C21: the url of a listing made from a wholesale card whose link is relative
\* ("/seg", "//host/seg" or "seg") has the platform's base origin and the
\* link's path; the url of a card whose link is absolute is that link.
C21_Resolved ==
  LET a == scraper["aliexpress"]
      items == a.lastBody.items
  IN  ParsedPage(a) =>
        \A i \in 1..Len(items) : \A k \in 1..Len(a.products) :
          ( /\ items[i].href.present
            /\ items[i].href.parses
            /\ a.products[k].title = trim(StatedTitle(items[i])) ) =>
              IF items[i].href.http
              THEN a.products[k].url = items[i].href.url
              ELSE a.products[k].url =
                     Url(WholesaleOrigin.scheme, WholesaleOrigin.host,
                         items[i].href.url.path)

\* a wholesale card the page offers as a listing: a link that is a URL and a
\* stated title
WholesaleEligible(item) ==
  /\ item.href.present
  /\ item.href.parses
  /\ trim(StatedTitle(item)) # << >>

\* C22: the wholesale adapter's output is the cards with a link and a stated
\* title, in page order, each under its stated title (the first non-empty of
\* title attribute, first title class, second title class, anchor text), all
\* of them unless the cap is reached: a card is dropped for lack of title only
\* when all four are empty.
C22_TitleChain ==
  LET a == scraper["aliexpress"]
      eligible == SelectSeq(a.lastBody.items, WholesaleEligible)
      cap == config.maxResultsPerPlatform
  IN  ParsedPage(a) =>
        /\ Len(a.products) <= Len(eligible)
        /\ \A k \in 1..Len(a.products) :
             a.products[k].title = trim(StatedTitle(eligible[k]))
        /\ Len(a.products) < Len(eligible) =>
             IF cap.whole THEN Len(a.products) >= cap.floor
             ELSE Len(a.products) > cap.floor

\* the numeric part of a price text's match, without its commas, and whether
\* it parses as a finite number
NumericPart(raw) == SelectSeq(Match(raw).numeric, LAMBDA c : c # ",")
ParsesFinite(raw) ==
  /\ NumericPart(raw) # << >>
  /\ ~parseFloatText(NumericPart(raw)).nan
  /\ ~Overflows(StripLeadingZeros(
         SubSeq(NumericPart(raw), 1, RunLength(NumericPart(raw), 1, Digits))))

\* the card a wholesale listing was made from
MadeFrom(listing, item) ==
  /\ item.href.present
  /\ item.href.parses
  /\ listing.title = trim(StatedTitle(item))

\* C23: the price of every wholesale listing is none or a finite number; a
\* listing whose card's price text matches but whose numeric part does not
\* parse as a finite number has price none and the captured currency; and a
\* card with a link and a title attribute is in the output whatever its price
\* text is, unless the cap is reached.
C23_PriceDegrades ==
  LET a == scraper["aliexpress"]
      items == a.lastBody.items
  IN  ParsedPage(a) =>
        /\ \A k \in 1..Len(a.products) :
             a.products[k].price = Null \/ a.products[k].price # Infinity
        /\ \A i \in 1..Len(items) : \A k \in 1..Len(a.products) :
             LET raw == extractPriceText(items[i])
             IN  ( /\ MadeFrom(a.products[k], items[i])
                   /\ Match(raw).found
                   /\ ~ParsesFinite(raw) ) =>
                     /\ a.products[k].price = Null
                     /\ a.products[k].currency =
                          IF Match(raw).captured
                          THEN [null |-> FALSE, text |-> Match(raw).symbol]
                          ELSE NoCurrency
        /\ \A i \in 1..Len(items) :
             ( /\ items[i].href.present
               /\ items[i].href.parses
               /\ items[i].titleAttr.present
               /\ trim(items[i].titleAttr.text) # << >> ) =>
                 \/ \E k \in 1..Len(a.products) : MadeFrom(a.products[k], items[i])
                 \/ IntGE(Len(a.products), config.maxResultsPerPlatform)

\* the destinations the wrappers of the storefront pages carry
StorefrontDestinations ==
  {SearchParamsGet(ShopItems[i].rawHref.text) :
     i \in {j \in 1..Len(ShopItems) :
              ShopItems[j].rawHref.wrapper /\ ShopItems[j].rawHref.uddg}}

\* C24: a storefront search result whose link is the redirect wrapper that
\* carries the destination d, encoded, and whose d matches the hosting-domain
\* pattern is listed with url exactly d (a result with a title, unless the cap
\* is reached), also when d itself holds percent escapes.
C24_Unwrapped ==
  LET a == scraper["shopify"]
      items == a.lastBody.items
  IN  ParsedPage(a) =>
        \A i \in 1..Len(items) : \A d \in StorefrontDestinations :
          ( /\ items[i].rawHref = Wrapper(d)
            /\ SHOPIFY_DOMAIN_REGEX(d.url)
            /\ trim(items[i].anchorText) # << >> ) =>
              \/ \E k \in 1..Len(a.products) :
                   /\ a.products[k].title = trim(items[i].anchorText)
                   /\ a.products[k].url = d.url
              \/ IntGE(Len(a.products), config.maxResultsPerPlatform)

\* the request supplies a maxResultsPerPlatform: a positive integer
Supplied(value) ==
  value.type = "number" /\ value.number.whole /\ value.number.floor > 0

\* the run an entry point started
RunStarted == request.entry \in {"http", "batch"} /\ mgr \notin {"none", "idle"}

\* C25: in the run an entry point starts, the cap of the adapters is the
\* request's maxResultsPerPlatform when the request supplies one, and the
\* configured default when the request has none.
C25_Override ==
  RunStarted =>
    /\ Supplied(request.maxResultsPerPlatform) =>
         config.maxResultsPerPlatform = request.maxResultsPerPlatform.number
    /\ request.maxResultsPerPlatform.type = "undefined" =>
         config.maxResultsPerPlatform =
           buildAppConfig(env.variables, NoOverrides).maxResultsPerPlatform

\* a number greater than 0, and a positive integer
Positive(m) == m.floor > 0 \/ (m.floor = 0 /\ ~m.whole)
PositiveInteger(m) == m.whole /\ m.floor > 0

\* C26: the configuration of a run has maxResultsPerPlatform a positive
\* integer and every per-platform timeout greater than 0, and so has every
\* adapter constructed from it.
C26_ValidConfig ==
  RunStarted =>
    /\ PositiveInteger(config.maxResultsPerPlatform)
    /\ \A p \in ThePlatforms :
         /\ Positive(config.scraperTimeouts[p])
         /\ scraper[p].pc # "none" => Positive(scraper[p].timeoutMs)

\* C27: the entry of a platform whose adapter resolved is a permutation of
\* the sequence the adapter returned: the same length and every listing as
\* many times; and the sequence the adapter returned is as it was returned.
C27_PureReordering ==
  mgr = "returned" =>
    \A p \in ThePlatforms :
      scraper[p].pc = "resolved" =>
        /\ scraper[p].products = scraper[p].returned
        /\ Len(EntryOf(p)) = Len(scraper[p].returned)
        /\ \A i \in 1..Len(EntryOf(p)) :
             Occurrences(EntryOf(p), EntryOf(p)[i])
               = Occurrences(scraper[p].returned, EntryOf(p)[i])

\* an entry of three listings that is not in the order the adapter returned
C27_Witness ==
  /\ mgr = "returned"
  /\ scraper["shopify"].pc = "resolved"
  /\ Len(scraper["shopify"].returned) = 3
  /\ EntryOf("shopify") # scraper["shopify"].returned

\* C28: in an environment in which every fetch settles and every timer
\* fires, the search() of every adapter settles and runAll returns, whatever
\* the fetch outcomes are.
C28_Terminates ==
  <>(mgr = "returned" /\ \A p \in ThePlatforms : Settled(scraper[p]))

\* a run that has returned after an adapter used up its attempts
C28_Witness ==
  /\ mgr = "returned"
  /\ \E p \in ThePlatforms :
       /\ scraper[p].pc = "resolved"
       /\ scraper[p].attempt = maxRetries
       /\ scraper[p].products = << >>

============================================================================
